---- MODULE Spec2Model ----
(***************************************************************************)
(* Model of graphrag/language_model/providers/fnllm/patches.py: the        *)
(* patched OpenAITextChatLLMImpl._execute_llm, its SSE normalisation and   *)
(* its diagnostic logging.                                                 *)
(*                                                                         *)
(* Python values are records tagged by t: "null" (None), "num", "str",     *)
(* "arr" (list), "obj" (dict) and class instances ("ChatCompletion", ...). *)
(* A dict or an instance carries f, a function from its keys/attributes to *)
(* values; an absent key is a key outside DOMAIN f.  A text is a sequence  *)
(* of characters; a JSON document inside a text is one character carrying  *)
(* the value json.loads gives for it.                                      *)
(***************************************************************************)
EXTENDS Integers, Sequences, FiniteSets, TLC

----------------------------------------------------------------------------
(* Bounds *)

\* most lines of a response body before the optional "data: [DONE]" line
MaxLines == 2

\* most entries of a "choices" list, in a stream payload or a completion
MaxChoices == 2

----------------------------------------------------------------------------
(* Python values *)

JNull == [t |-> "null"]
JNum(n) == [t |-> "num", n |-> n]
JStr(s) == [t |-> "str", s |-> s]
JArr(xs) == [t |-> "arr", xs |-> xs]
JObj(f) == [t |-> "obj", f |-> f]
PyObj(cls, f) == [t |-> cls, f |-> f]

NoKeys == [k \in {} |-> JNull]

\* bool(v)
Truthy(v) ==
  CASE v.t = "null" -> FALSE
    [] v.t = "num" -> v.n # 0
    [] v.t = "str" -> v.s # <<>>
    [] v.t = "arr" -> v.xs # <<>>
    [] v.t = "obj" -> DOMAIN v.f # {}
    [] OTHER -> TRUE

\* type(v).__name__
TypeName(v) ==
  CASE v.t = "null" -> "NoneType"
    [] v.t = "num" -> "int"
    [] v.t = "arr" -> "list"
    [] v.t = "obj" -> "dict"
    [] OTHER -> v.t

\* d.get(k, default) on a dict d
DictGet(d, k, default) == IF k \in DOMAIN d.f THEN d.f[k] ELSE default

\* hasattr(v, "get"): only dicts have .get among the values modelled
HasGet(v) == v.t = "obj"

----------------------------------------------------------------------------
(* Texts *)

Ch(c) == [c |-> c]
JsonText(v) == [c |-> "json", v |-> v]

Space == Ch(" ")
Newline == Ch("\n")
DoneText == Ch("[DONE]")
Garbage == Ch("{")
DataPrefix == <<Ch("d"), Ch("a"), Ch("t"), Ch("a"), Ch(":")>>

IsSpace(ch) == ch.c \in {" ", "\n"}

RECURSIVE LStrip(_)
LStrip(s) ==
  IF s # <<>> /\ IsSpace(Head(s)) THEN LStrip(Tail(s)) ELSE s

RECURSIVE RStrip(_)
RStrip(s) ==
  IF s # <<>> /\ IsSpace(s[Len(s)]) THEN RStrip(SubSeq(s, 1, Len(s) - 1)) ELSE s

\* str.strip()
Strip(s) == RStrip(LStrip(s))

\* str.startswith(p)
StartsWith(s, p) == Len(s) >= Len(p) /\ \A i \in 1..Len(p) : s[i].c = p[i].c

\* str.splitlines()
RECURSIVE SplitLines(_)
SplitLines(s) ==
  IF s = <<>> THEN <<>>
  ELSE LET brk == {i \in 1..Len(s) : s[i].c = "\n"}
       IN IF brk = {} THEN <<s>>
          ELSE LET i == CHOOSE j \in brk : \A k \in brk : j <= k
               IN <<SubSeq(s, 1, i - 1)>> \o SplitLines(SubSeq(s, i + 1, Len(s)))

\* json.loads(payload): [ok |-> FALSE] stands for json.JSONDecodeError
JsonLoads(payload) ==
  IF Len(payload) = 1 /\ payload[1].c = "json"
  THEN [ok |-> TRUE, val |-> payload[1].v]
  ELSE [ok |-> FALSE, val |-> JNull]

----------------------------------------------------------------------------
(* _coalesce_stream_chunks *)

\* what "for choice in <v>" iterates over; [ok |-> FALSE] is the TypeError
\* of iterating None or a number.  A str yields its characters and a dict
\* its keys, all of them strings.
IterItems(v) ==
  CASE v.t = "arr" -> [ok |-> TRUE, xs |-> v.xs]
    [] v.t = "str" -> [ok |-> TRUE, xs |-> [i \in 1..Len(v.s) |-> JStr(<<v.s[i]>>)]]
    [] v.t = "obj" -> [ok |-> TRUE,
                       xs |-> [i \in 1..Cardinality(DOMAIN v.f) |-> JStr(<<"key">>)]]
    [] OTHER -> [ok |-> FALSE, xs |-> <<>>]

\* body of the loop over one payload's choices (lines 100-104): the chunks
\* with this choice's delta.content appended when it is truthy
ChoiceChunks(choice, chunks) ==
  IF ~HasGet(choice) THEN [exc |-> "AttributeError", chunks |-> chunks]
  ELSE LET delta == DictGet(choice, "delta", JObj(NoKeys))
       IN IF ~HasGet(delta) THEN [exc |-> "AttributeError", chunks |-> chunks]
          ELSE LET content == DictGet(delta, "content", JNull)
               IN [exc |-> "",
                   chunks |-> IF Truthy(content) THEN Append(chunks, content)
                              ELSE chunks]

RECURSIVE ChoicesChunks(_, _)
ChoicesChunks(items, chunks) ==
  IF items = <<>> THEN [exc |-> "", chunks |-> chunks]
  ELSE LET r == ChoiceChunks(Head(items), chunks)
       IN IF r.exc # "" THEN r ELSE ChoicesChunks(Tail(items), r.chunks)

\* one iteration of the loop over the lines (lines 88-104)
ScanLine(raw_line, acc) ==
  LET line == Strip(raw_line)
  IN IF ~StartsWith(line, DataPrefix) THEN acc
     ELSE LET payload == Strip(SubSeq(line, 6, Len(line)))
          IN IF payload = <<>> \/ (Len(payload) = 1 /\ payload[1].c = "[DONE]")
             THEN acc
             ELSE LET parsed == JsonLoads(payload)
                  IN IF ~parsed.ok THEN acc
                     ELSE IF ~HasGet(parsed.val)
                     THEN [acc EXCEPT !.last = parsed.val, !.exc = "AttributeError"]
                     ELSE LET it == IterItems(DictGet(parsed.val, "choices", JArr(<<>>)))
                          IN IF ~it.ok
                             THEN [acc EXCEPT !.last = parsed.val, !.exc = "TypeError"]
                             ELSE LET r == ChoicesChunks(it.xs, acc.chunks)
                                  IN [last |-> parsed.val, chunks |-> r.chunks,
                                      exc |-> r.exc]

RECURSIVE ScanLines(_, _)
ScanLines(lines, acc) ==
  IF lines = <<>> \/ acc.exc # "" THEN acc
  ELSE ScanLines(Tail(lines), ScanLine(Head(lines), acc))

\* JoinChunks with a space put between the chunks
RECURSIVE JoinChunksSpaced(_)
JoinChunksSpaced(chunks) ==
  IF chunks = <<>> THEN [ok |-> TRUE, s |-> <<>>]
  ELSE LET rest == JoinChunksSpaced(Tail(chunks))
       IN IF Head(chunks).t # "str" \/ ~rest.ok THEN [ok |-> FALSE, s |-> <<>>]
          ELSE [ok |-> TRUE,
                s |-> IF Tail(chunks) = <<>> THEN Head(chunks).s
                      ELSE Head(chunks).s \o <<" ">> \o rest.s]

\* "".join(chunks): [ok |-> FALSE] is the TypeError of joining a non-str
RECURSIVE JoinChunks(_)
JoinChunks(chunks) ==
  IF chunks = <<>> THEN [ok |-> TRUE, s |-> <<>>]
  ELSE LET rest == JoinChunks(Tail(chunks))
       IN IF Head(chunks).t # "str" \/ ~rest.ok THEN [ok |-> FALSE, s |-> <<>>]
          ELSE [ok |-> TRUE, s |-> Head(chunks).s \o rest.s]

\* the dict built at lines 110-127 from the joined content and last_payload
CompletionBase(content, last_payload) ==
  LET choice == JObj([index |-> JNum(0),
                      message |-> JObj([role |-> JStr(<<"assistant">>),
                                        content |-> JStr(content)]),
                      finish_reason |-> JStr(<<"stop">>),
                      logprobs |-> JNull])
      created == DictGet(last_payload, "created", JNull)
  IN [id |-> DictGet(last_payload, "id", JStr(<<"streamed-response">>)),
      object |-> JStr(<<"chat.completion">>),
      model |-> DictGet(last_payload, "model", JStr(<<"unknown-model">>)),
      created |-> IF Truthy(created) THEN created ELSE JNum(0),
      choices |-> JArr(<<choice>>),
      system_fingerprint |-> DictGet(last_payload, "system_fingerprint", JNull)]

\* CompletionDict with usage copied whenever the key is there
CompletionDictAnyUsage(content, last_payload) ==
  JObj(IF "usage" \in DOMAIN last_payload.f
       THEN [usage |-> last_payload.f.usage] @@ CompletionBase(content, last_payload)
       ELSE CompletionBase(content, last_payload))

\* the dict _coalesce_stream_chunks returns (lines 120-133)
CompletionDict(content, last_payload) ==
  LET usage == DictGet(last_payload, "usage", JNull)
  IN JObj(IF usage.t = "obj"
          THEN [usage |-> usage] @@ CompletionBase(content, last_payload)
          ELSE CompletionBase(content, last_payload))

\* CoalesceStreamChunks with last_payload starting as {} instead of None
CoalesceStreamChunksEmptyLast(text) ==
  LET acc == ScanLines(SplitLines(text),
                       [last |-> JObj(NoKeys), chunks |-> <<>>, exc |-> ""])
      content == JoinChunks(acc.chunks)
  IN IF acc.exc # "" THEN [exc |-> acc.exc, val |-> JNull]
     ELSE IF ~content.ok THEN [exc |-> "TypeError", val |-> JNull]
     ELSE [exc |-> "", val |-> CompletionDict(content.s, acc.last)]

\* _coalesce_stream_chunks(text): exc names the exception that escapes it
\* ("" when none does) and val is what it returns, None or the dict
CoalesceStreamChunks(text) ==
  LET acc == ScanLines(SplitLines(text), [last |-> JNull, chunks |-> <<>>, exc |-> ""])
  IN IF acc.exc # "" THEN [exc |-> acc.exc, val |-> JNull]
     ELSE IF acc.last.t = "null" THEN [exc |-> "", val |-> JNull]
     ELSE LET content == JoinChunks(acc.chunks)
          IN IF ~content.ok THEN [exc |-> "TypeError", val |-> JNull]
             ELSE [exc |-> "", val |-> CompletionDict(content.s, acc.last)]

----------------------------------------------------------------------------
(* Diagnostics *)

\* None where the details hold a str otherwise (url, parsed_type)
PyNone == "None"

\* the text _extract_response_body substitutes when reading the body raises
FailedBody(exc) == <<Ch("<failed to read response body: "), Ch(exc), Ch(">")>>

\* ExtractResponseBody without the except clause's placeholder
ExtractResponseBodyUnguarded(raw_response) == raw_response.http_response.text.val

\* _extract_response_body(raw_response)
ExtractResponseBody(raw_response) ==
  LET text == raw_response.http_response.text
  IN IF text.ok THEN text.val ELSE FailedBody(text.exc)

\* _build_response_details(raw_response, parsed); parsed defaults to None
BuildResponseDetails(raw_response, parsed) ==
  LET http_response == raw_response.http_response
  IN [status_code |-> http_response.status_code,
      url |-> IF http_response.has_request THEN http_response.url ELSE PyNone,
      headers |-> http_response.headers,
      response_body |-> ExtractResponseBody(raw_response),
      parsed_type |-> IF parsed.t # "null" THEN TypeName(parsed) ELSE PyNone]

\* _format_detail_message(details): the fields of
\* "status=<S> url=<U> parsed=<P> body=<B>" in order
FormatDetailMessage(details) ==
  [status |-> details.status_code, url |-> details.url,
   parsed |-> details.parsed_type, body |-> details.response_body]

\* a record handed to logger.error / logger.warning
LogRecord(level, msg, details, exc_info) ==
  [level |-> level, msg |-> msg, summary |-> FormatDetailMessage(details),
   details |-> details, exc_info |-> exc_info]

ParseFailedMsg == <<"Failed to parse response from LLM; ">>
MissingChoicesMsg == <<"LLM response ", "missing 'choices'", " field; ">>
NoChoicesMsg == <<"LLM response contained no choices; ">>
CoercedMsg == <<"Coerced streaming response", " into chat completion; ">>

----------------------------------------------------------------------------
(* _normalize_completion *)

IsInt(v) == v.t = "num"
IsStr(v) == v.t = "str"

\* whether ChatCompletion.model_validate accepts the assembled dict
ValidCompletionDict(d) ==
  /\ IsStr(d.f.id)
  /\ IsStr(d.f.model)
  /\ IsInt(d.f.created)
  /\ d.f.system_fingerprint.t \in {"null", "str"}
  /\ ("usage" \in DOMAIN d.f /\ d.f.usage.t # "null") =>
       /\ d.f.usage.t = "obj"
       /\ {"prompt_tokens", "completion_tokens", "total_tokens"} \subseteq DOMAIN d.f.usage.f
       /\ IsInt(d.f.usage.f.prompt_tokens)
       /\ IsInt(d.f.usage.f.completion_tokens)
       /\ IsInt(d.f.usage.f.total_tokens)

\* the ChatCompletion instance model_validate builds from a valid dict
ChatCompletionOf(d) ==
  LET c == d.f.choices.xs[1]
      choice == PyObj("Choice",
                      [index |-> c.f.index,
                       message |-> PyObj("ChatCompletionMessage", c.f.message.f),
                       finish_reason |-> c.f.finish_reason,
                       logprobs |-> c.f.logprobs])
      usage == IF "usage" \in DOMAIN d.f /\ d.f.usage.t = "obj"
               THEN PyObj("CompletionUsage", d.f.usage.f)
               ELSE JNull
  IN PyObj("ChatCompletion",
           [id |-> d.f.id, object |-> d.f.object, model |-> d.f.model,
            created |-> d.f.created, choices |-> JArr(<<choice>>),
            system_fingerprint |-> d.f.system_fingerprint, usage |-> usage])

\* whether _normalize_completion takes the SSE branch (lines 69-71)
LooksLikeStream(completion) ==
  completion.t = "str" /\ StartsWith(Strip(completion.s), DataPrefix)

\* CoercedRecord logged with logger.error
CoercedRecordAsError(details) == LogRecord("error", CoercedMsg, details, PyNone)

\* the warning logged at lines 75-79
CoercedRecord(details) == LogRecord("warning", CoercedMsg, details, PyNone)

\* _normalize_completion(completion, raw_response): exc names the exception
\* that escapes it, val is what it returns, assembled its local of that name
\* (None when never assigned), logged the records it logs
NormalizeCompletion(completion, raw_response) ==
  IF ~LooksLikeStream(completion)
  THEN [exc |-> "", val |-> completion, assembled |-> JNull, logged |-> <<>>]
  ELSE LET details == BuildResponseDetails(raw_response, JNull)
           assembled == CoalesceStreamChunks(Strip(completion.s))
       IN IF assembled.exc # ""
          THEN [exc |-> assembled.exc, val |-> JNull, assembled |-> JNull,
                logged |-> <<>>]
          ELSE IF assembled.val.t = "null"
          THEN [exc |-> "", val |-> completion, assembled |-> JNull, logged |-> <<>>]
          ELSE IF ValidCompletionDict(assembled.val)
          THEN [exc |-> "", val |-> ChatCompletionOf(assembled.val),
                assembled |-> assembled.val, logged |-> <<CoercedRecord(details)>>]
          ELSE [exc |-> "ValidationError", val |-> JNull,
                assembled |-> assembled.val, logged |-> <<CoercedRecord(details)>>]

----------------------------------------------------------------------------
(* Responses the transport can hand to _execute_llm_with_logging *)

Str(w) == JStr(<<w>>)

DeltaChoice(content) == JObj([delta |-> JObj([content |-> content])])

\* choices of a stream payload that lists of several are built from
StreamChoices == {DeltaChoice(Str("Hello")), DeltaChoice(Str(" World")), JObj(NoKeys)}

\* choices of a stream payload that appear alone
OddChoices ==
  {JNum(5), JObj([delta |-> JNull]), DeltaChoice(JNull), DeltaChoice(JStr(<<>>)),
   DeltaChoice(JNum(5))}

SeqsUpTo(S, n) == UNION {[1..k -> S] : k \in 0..n}

UsageDict(p, c) ==
  JObj([prompt_tokens |-> JNum(p), completion_tokens |-> JNum(c),
        total_tokens |-> JNum(p + c)])

OneHello == JArr(<<DeltaChoice(Str("Hello"))>>)

\* the JSON documents a "data:" line can carry
StreamPayloads ==
  {JObj([choices |-> JArr(cs)]) : cs \in SeqsUpTo(StreamChoices, MaxChoices)}
  \cup {JObj([choices |-> JArr(<<c>>)]) : c \in OddChoices}
  \cup {JObj(NoKeys), JObj([choices |-> JNull])}
  \cup {JObj([choices |-> OneHello, id |-> JNull]),
        JObj([choices |-> OneHello, id |-> JStr(<<>>)]),
        JObj([choices |-> OneHello, model |-> JNull]),
        JObj([choices |-> OneHello, created |-> JNull]),
        JObj([choices |-> OneHello, usage |-> JObj(NoKeys)]),
        JObj([choices |-> OneHello, usage |-> JNum(5)]),
        JObj([choices |-> OneHello, id |-> Str("chatcmpl-1"), model |-> Str("gpt-test"),
              created |-> JNum(7), usage |-> UsageDict(3, 4),
              system_fingerprint |-> Str("fp")])}
  \cup {JNull, JNum(5)}

DataLine(payload) == DataPrefix \o <<Space>> \o payload
DoneLine == DataLine(<<DoneText>>)

\* the lines any number of which a string body can hold
CoreLines ==
  {DataLine(<<JsonText(JObj([choices |-> OneHello]))>>),
   DataLine(<<JsonText(JObj([choices |-> JArr(<<DeltaChoice(Str(" World"))>>)]))>>),
   DataLine(<<JsonText(JObj(NoKeys))>>),
   DataLine(<<JsonText(JNum(5))>>),
   DataLine(<<Garbage>>), DoneLine, <<Garbage>>, <<>>}

\* the lines a string body is made of
BodyLines ==
  CoreLines
  \cup {DataLine(<<JsonText(v)>>) : v \in StreamPayloads}
  \cup {DataPrefix,
        <<Space>> \o DataLine(<<JsonText(JObj([choices |-> OneHello]))>>) \o <<Space>>,
        DataPrefix \o <<JsonText(JObj([choices |-> OneHello]))>>,
        DataLine(<<JsonText(JObj(NoKeys)), Space, JsonText(JObj(NoKeys))>>)}

RECURSIVE JoinLines(_)
JoinLines(ls) ==
  IF ls = <<>> THEN <<>>
  ELSE IF Len(ls) = 1 THEN ls[1]
  ELSE ls[1] \o <<Newline>> \o JoinLines(Tail(ls))

\* up to MaxLines lines, at most one of them outside CoreLines
LineSeqs ==
  {ls \in SeqsUpTo(BodyLines, MaxLines) :
     \A i, j \in DOMAIN ls : ls[i] \notin CoreLines /\ ls[j] \notin CoreLines => i = j}

\* string bodies, with or without a final "data: [DONE]" line
Bodies ==
  {JoinLines(ls) : ls \in LineSeqs}
  \cup {JoinLines(Append(ls, DoneLine)) : ls \in LineSeqs}

\* bodies that also go with an unreadable or request-less HTTP response
ShortBodies ==
  {JoinLines(ls) : ls \in SeqsUpTo(BodyLines, 1)}
  \cup {<<Newline>> \o JoinLines(Append(ls, DoneLine)) \o <<Newline>> :
          ls \in SeqsUpTo(BodyLines, 1)}

Url == "http://example.com/v1/chat/completions"
EventStream == [h \in {"content-type"} |-> "text/event-stream"]
NoHeaders == [h \in {} |-> ""]

HttpOk(text) ==
  [status_code |-> 200, has_request |-> TRUE, url |-> Url, headers |-> EventStream,
   text |-> [ok |-> TRUE, val |-> text, exc |-> ""]]

HttpResponses(text) ==
  {HttpOk(text),
   [status_code |-> 400, has_request |-> FALSE, url |-> Url, headers |-> NoHeaders,
    text |-> [ok |-> TRUE, val |-> text, exc |-> ""]],
   [status_code |-> 200, has_request |-> TRUE, url |-> Url, headers |-> EventStream,
    text |-> [ok |-> FALSE, val |-> <<>>, exc |-> "UnicodeDecodeError"]]}

Message(content) ==
  PyObj("ChatCompletionMessage", [role |-> Str("assistant"), content |-> content])

Choice(i, content) ==
  PyObj("Choice", [index |-> JNum(i), message |-> Message(content),
                   finish_reason |-> Str("stop"), logprobs |-> JNull])

MessageContents == {Str("Hello"), Str(" World"), JNull}

Usage(p, c) ==
  PyObj("CompletionUsage",
        [prompt_tokens |-> JNum(p), completion_tokens |-> JNum(c),
         total_tokens |-> JNum(p + c)])

Usages == {JNull, Usage(3, 4), Usage(0, 0)}

ChoiceLists ==
  {[i \in 1..Len(cs) |-> Choice(i - 1, cs[i])] : cs \in SeqsUpTo(MessageContents, MaxChoices)}

\* the ChatCompletion instances parse() can return; one built without
\* validation can lack choices or hold None there
Completions ==
  {PyObj("ChatCompletion",
         [id |-> Str("chatcmpl-1"), choices |-> JArr(cs), usage |-> u]) :
     cs \in ChoiceLists, u \in Usages}
  \cup {PyObj("ChatCompletion", [id |-> Str("chatcmpl-1"), choices |-> JNull, usage |-> u]) :
          u \in Usages}
  \cup {PyObj("ChatCompletion", [id |-> Str("chatcmpl-1"), usage |-> JNull])}

ParseExceptions == {"JSONDecodeError", "APIResponseValidationError"}

Returns(v) == [raises |-> FALSE, exc |-> "", val |-> v]
Raises(e) == [raises |-> TRUE, exc |-> e, val |-> JNull]

RawResponse(http, parse) ==
  [http_response |-> http, headers |-> http.headers, parse |-> parse]

BadBody == <<Garbage>>

RawResponses ==
  {RawResponse(HttpOk(b), Returns(JStr(b))) : b \in Bodies}
  \cup UNION {{RawResponse(h, Returns(JStr(b))) : h \in HttpResponses(b)} :
                b \in ShortBodies}
  \cup {RawResponse(h, Returns(v)) :
          h \in HttpResponses(BadBody),
          v \in Completions \cup {JNull, JObj([error |-> Str("bad")])}}
  \cup {RawResponse(h, Raises(e)) : h \in HttpResponses(BadBody), e \in ParseExceptions}

PromptMessages == {"hello"}

----------------------------------------------------------------------------
(* _execute_llm_with_logging *)

VARIABLES pc, raw_response, prompt_message, completion, assembled, headers, log,
          outcome

vars == <<pc, raw_response, prompt_message, completion, assembled, headers, log, outcome>>

Pending == [kind |-> "pending"]
Raised(exc, at) == [kind |-> "raised", exc |-> exc, at |-> at]
Returned(output) == [kind |-> "returned", output |-> output]

\* hasattr(v, a): the builtin values modelled have none of the attributes read
HasAttr(v, a) ==
  v.t \notin {"null", "num", "str", "arr", "obj"} /\ a \in DOMAIN v.f

\* ParseFailedRecord logged with logger.warning
ParseFailedRecordAsWarning(raw, exc) ==
  LogRecord("warning", ParseFailedMsg, BuildResponseDetails(raw, JNull), exc)

\* the record logged when parse() raises (lines 157-163)
ParseFailedRecord(raw, exc) ==
  LogRecord("error", ParseFailedMsg, BuildResponseDetails(raw, JNull), exc)

\* MissingChoicesRecord with the details built without the parsed value
MissingChoicesRecordUnparsed(raw, c) ==
  LogRecord("error", MissingChoicesMsg, BuildResponseDetails(raw, JNull), PyNone)

\* the record logged when completion.choices raises (lines 173-178)
MissingChoicesRecord(raw, c) ==
  LogRecord("error", MissingChoicesMsg, BuildResponseDetails(raw, c), PyNone)

\* NoChoicesRecord with the details built without the parsed value
NoChoicesRecordUnparsed(raw, c) ==
  LogRecord("error", NoChoicesMsg, BuildResponseDetails(raw, JNull), PyNone)

\* the record logged when choices is falsy (lines 182-187)
NoChoicesRecord(raw, c) ==
  LogRecord("error", NoChoicesMsg, BuildResponseDetails(raw, c), PyNone)

\* LLMUsageMetrics(): both counts default to zero
DefaultUsageMetrics == [input_tokens |-> 0, output_tokens |-> 0]

\* UsageMetrics with the two counts exchanged
UsageMetricsSwapped(c) ==
  IF Truthy(c.f.usage)
  THEN [input_tokens |-> c.f.usage.f.completion_tokens.n,
        output_tokens |-> c.f.usage.f.prompt_tokens.n]
  ELSE DefaultUsageMetrics

\* the usage of the output (lines 191-196 and 203)
UsageMetrics(c) ==
  IF Truthy(c.f.usage)
  THEN [input_tokens |-> c.f.usage.f.prompt_tokens.n,
        output_tokens |-> c.f.usage.f.completion_tokens.n]
  ELSE DefaultUsageMetrics

\* result = choices[0].message (line 190)
ResultMessage(c) == c.f.choices.xs[1].f.message

\* the OpenAIChatOutput built at lines 198-205
ChatOutput(prompt, c, hdrs) ==
  [raw_input |-> prompt,
   raw_output |-> ResultMessage(c),
   content |-> ResultMessage(c).f.content,
   raw_model |-> c,
   usage |-> UsageMetrics(c),
   headers |-> hdrs]

Init ==
  /\ pc = "start"
  /\ raw_response = JNull
  /\ prompt_message = ""
  /\ completion = JNull
  /\ assembled = JNull
  /\ headers = NoHeaders
  /\ log = <<>>
  /\ outcome = Pending

\* lines 142-152: build the messages and await the raw response
Create ==
  /\ pc = "start"
  /\ \E r \in RawResponses, p \in PromptMessages :
       /\ raw_response' = r
       /\ prompt_message' = p
  /\ pc' = "parse"
  /\ UNCHANGED <<completion, assembled, headers, log, outcome>>

\* lines 154-164: raw_response.parse() and its except clause
Parse ==
  /\ pc = "parse"
  /\ IF raw_response.parse.raises
     THEN /\ log' = Append(log, ParseFailedRecord(raw_response, raw_response.parse.exc))
          /\ outcome' = Raised(raw_response.parse.exc, "parse")
          /\ pc' = "done"
          /\ UNCHANGED completion
     ELSE /\ completion' = raw_response.parse.val
          /\ pc' = "normalize"
          /\ UNCHANGED <<log, outcome>>
  /\ UNCHANGED <<raw_response, prompt_message, assembled, headers>>

\* lines 166-168: take the headers and normalise the completion
Normalize ==
  /\ pc = "normalize"
  /\ headers' = raw_response.headers
  /\ LET r == NormalizeCompletion(completion, raw_response)
     IN /\ log' = log \o r.logged
        /\ assembled' = r.assembled
        /\ IF r.exc # ""
           THEN /\ outcome' = Raised(r.exc, "normalize")
                /\ pc' = "done"
                /\ UNCHANGED completion
           ELSE /\ completion' = r.val
                /\ pc' = "choices"
                /\ UNCHANGED outcome
  /\ UNCHANGED <<raw_response, prompt_message>>

\* lines 170-188: read completion.choices and reject a missing or empty one
Choices ==
  /\ pc = "choices"
  /\ IF ~HasAttr(completion, "choices")
     THEN /\ log' = Append(log, MissingChoicesRecord(raw_response, completion))
          /\ outcome' = Raised("AttributeError", "choices")
          /\ pc' = "done"
     ELSE IF ~Truthy(completion.f.choices)
     THEN /\ log' = Append(log, NoChoicesRecord(raw_response, completion))
          /\ outcome' = Raised("OpenAINoChoicesAvailableError", "choices")
          /\ pc' = "done"
     ELSE /\ pc' = "result"
          /\ UNCHANGED <<log, outcome>>
  /\ UNCHANGED <<raw_response, prompt_message, completion, assembled, headers>>

\* lines 190-205: build and return the output
Result ==
  /\ pc = "result"
  /\ outcome' = Returned(ChatOutput(prompt_message, completion, headers))
  /\ pc' = "done"
  /\ UNCHANGED <<raw_response, prompt_message, completion, assembled, headers, log>>

Next == Create \/ Parse \/ Normalize \/ Choices \/ Result

Spec == Init /\ [][Next]_vars

----------------------------------------------------------------------------
(* What the claims speak of, read off the response rather than the run *)

\* the value parse() returned, and whether it is a stream-looking string
Parsed == raw_response.parse.val
ParsedStream == pc # "start" /\ ~raw_response.parse.raises /\ LooksLikeStream(Parsed)
StreamText == Strip(Parsed.s)

\* the payload text of a "data:" line, <<>> for any other line
DataPayload(raw_line) ==
  LET line == Strip(raw_line)
  IN IF StartsWith(line, DataPrefix) THEN Strip(SubSeq(line, 6, Len(line))) ELSE <<>>

\* the JSON values of the lines whose payload decodes, in stream order
RECURSIVE DecodedOf(_)
DecodedOf(lines) ==
  IF lines = <<>> THEN <<>>
  ELSE LET d == JsonLoads(DataPayload(Head(lines)))
       IN (IF d.ok THEN <<d.val>> ELSE <<>>) \o DecodedOf(Tail(lines))

DecodedPayloads(text) == DecodedOf(SplitLines(text))

\* a choice's delta.content when it is a non-empty string, else nothing
DeltaContent(choice) ==
  IF /\ choice.t = "obj"
     /\ "delta" \in DOMAIN choice.f
     /\ choice.f.delta.t = "obj"
     /\ "content" \in DOMAIN choice.f.delta.f
     /\ choice.f.delta.f.content.t = "str"
  THEN choice.f.delta.f.content.s
  ELSE <<>>

PayloadChoices(p) ==
  IF p.t = "obj" /\ "choices" \in DOMAIN p.f /\ p.f.choices.t = "arr"
  THEN p.f.choices.xs
  ELSE <<>>

RECURSIVE ConcatEveryChoice(_)
ConcatEveryChoice(cs) ==
  IF cs = <<>> THEN <<>> ELSE DeltaContent(Head(cs)) \o ConcatEveryChoice(Tail(cs))

\* the contents of every choice of every payload, concatenated in order
RECURSIVE ContentOfAllChoices(_)
ContentOfAllChoices(ps) ==
  IF ps = <<>> THEN <<>>
  ELSE ConcatEveryChoice(PayloadChoices(Head(ps))) \o ContentOfAllChoices(Tail(ps))

\* the contents of choices[0] of every payload, concatenated in order
RECURSIVE ContentOfFirstChoices(_)
ContentOfFirstChoices(ps) ==
  IF ps = <<>> THEN <<>>
  ELSE (IF PayloadChoices(Head(ps)) = <<>> THEN <<>>
        ELSE DeltaContent(PayloadChoices(Head(ps))[1]))
       \o ContentOfFirstChoices(Tail(ps))

EndsWithDone(text) ==
  LET lines == SplitLines(text)
  IN lines # <<>> /\ lines[Len(lines)] = DoneLine

\* the synthetic choice of the assembled dict
Reassembled == pc # "start" /\ assembled.t = "obj"
SyntheticContent == assembled.f.choices.xs[1].f.message.f.content.s

WithLevel(level) == {i \in DOMAIN log : log[i].level = level}

BodyText == raw_response.http_response.text

----------------------------------------------------------------------------
(* Claims *)

\* C1: a call whose parse() returns a completion with non-empty choices
\* returns an output whose content is choices[0].message.content, whose
\* raw_output is choices[0].message, whose headers are the raw response's,
\* and whose usage is the mapped token counts, or zero/zero without usage.
C1_OutputOfCompletion ==
  (/\ pc = "done"
   /\ ~raw_response.parse.raises
   /\ HasAttr(Parsed, "choices")
   /\ Parsed.f.choices.t = "arr"
   /\ Parsed.f.choices.xs # <<>>)
  => /\ outcome.kind = "returned"
     /\ outcome.output.raw_output = Parsed.f.choices.xs[1].f.message
     /\ outcome.output.content = Parsed.f.choices.xs[1].f.message.f.content
     /\ outcome.output.headers = raw_response.headers
     /\ outcome.output.usage =
          IF Parsed.f.usage.t = "null"
          THEN [input_tokens |-> 0, output_tokens |-> 0]
          ELSE [input_tokens |-> Parsed.f.usage.f.prompt_tokens.n,
                output_tokens |-> Parsed.f.usage.f.completion_tokens.n]

C1_Witness ==
  /\ pc = "done"
  /\ outcome.kind = "returned"
  /\ Parsed.t = "ChatCompletion"
  /\ Len(Parsed.f.choices.xs) = 2
  /\ outcome.output.content = Str(" World")
  /\ outcome.output.usage = [input_tokens |-> 3, output_tokens |-> 4]

\* C2: when parse() raises, the call fails with that same exception and has
\* logged exactly one record, at error level, whose details hold the raw
\* body text as response_body and null as parsed_type.
C2_ParseFailure ==
  (pc # "start" /\ pc # "parse" /\ raw_response.parse.raises)
  => /\ pc = "done"
     /\ outcome = Raised(raw_response.parse.exc, "parse")
     /\ Len(log) = 1
     /\ log[1].level = "error"
     /\ log[1].exc_info = raw_response.parse.exc
     /\ log[1].details.parsed_type = PyNone
     /\ BodyText.ok => log[1].details.response_body = BodyText.val

C2_Witness ==
  /\ pc = "done"
  /\ raw_response.parse.raises
  /\ BodyText.ok
  /\ outcome.kind = "raised"
  /\ outcome.exc = "JSONDecodeError"
  /\ Len(log) = 1

\* C3 (as stated): for a body of data lines ending in "data: [DONE]", the
\* synthetic choice's content is the concatenation of choices[0].delta.content
\* of the decodable lines.
C3_FirstChoiceOnly ==
  (Reassembled /\ EndsWithDone(StreamText))
  => SyntheticContent = ContentOfFirstChoices(DecodedPayloads(StreamText))

\* C3 (amended): whenever _coalesce_stream_chunks returns a completion, it
\* has a single choice whose content is the concatenation, in stream order
\* and with no separator, of the non-empty delta.content of every choice of
\* every decodable line.
C3_EveryChoice ==
  Reassembled
  => /\ Len(assembled.f.choices.xs) = 1
     /\ SyntheticContent = ContentOfAllChoices(DecodedPayloads(StreamText))

C3_Witness ==
  /\ Reassembled
  /\ EndsWithDone(StreamText)
  /\ Len(DecodedPayloads(StreamText)) = 2
  /\ Len(SplitLines(StreamText)) = 3
  /\ SyntheticContent = <<"Hello", " World">>

\* whether the call got as far as reading completion.choices
ReachedChoices == pc \in {"result", "done"} /\ ~(outcome.kind = "raised" /\ outcome.at # "choices")

Contains(msg, part) == \E i \in DOMAIN msg : msg[i] = part

\* the fields of the details that do not depend on the parsed value
DetailsOfResponse(details) ==
  /\ details.status_code = raw_response.http_response.status_code
  /\ details.url = (IF raw_response.http_response.has_request THEN Url ELSE PyNone)
  /\ details.headers = raw_response.http_response.headers
  /\ BodyText.ok => details.response_body = BodyText.val

\* C4 (as stated): when the completion has no choices attribute the call
\* fails with AttributeError after logging exactly one error record whose
\* message contains "missing 'choices'" and whose details hold the raw body
\* text and the type name of the post-normalization parsed value.
C4_MissingChoices ==
  (ReachedChoices /\ ~HasAttr(completion, "choices"))
  => /\ pc = "done"
     /\ outcome = Raised("AttributeError", "choices")
     /\ Cardinality(WithLevel("error")) = 1
     /\ \A i \in WithLevel("error") :
          /\ Contains(log[i].msg, "missing 'choices'")
          /\ BodyText.ok => log[i].details.response_body = BodyText.val
          /\ log[i].details.parsed_type = TypeName(completion)

\* C4 (amended): as stated, except that parsed_type is null when the
\* post-normalization parsed value is None.
C4_MissingChoicesTyped ==
  (ReachedChoices /\ ~HasAttr(completion, "choices"))
  => /\ pc = "done"
     /\ outcome = Raised("AttributeError", "choices")
     /\ Cardinality(WithLevel("error")) = 1
     /\ \A i \in WithLevel("error") :
          /\ Contains(log[i].msg, "missing 'choices'")
          /\ BodyText.ok => log[i].details.response_body = BodyText.val
          /\ log[i].details.parsed_type =
               IF completion.t = "null" THEN PyNone ELSE TypeName(completion)

C4_Witness ==
  /\ pc = "done"
  /\ completion.t = "str"
  /\ BodyText.ok
  /\ outcome = Raised("AttributeError", "choices")
  /\ Len(log) = 1
  /\ log[1].details.parsed_type = "str"
  /\ log[1].details.response_body = completion.s

\* C5: when choices is present but empty the call fails with
\* OpenAINoChoicesAvailableError, never with AttributeError and never with
\* an output, after logging exactly one record, at error level, that
\* carries the full details of the response.
C5_NoChoices ==
  (/\ ReachedChoices
   /\ HasAttr(completion, "choices")
   /\ completion.f.choices.t = "arr"
   /\ completion.f.choices.xs = <<>>)
  => /\ pc = "done"
     /\ outcome = Raised("OpenAINoChoicesAvailableError", "choices")
     /\ outcome.exc # "AttributeError"
     /\ Len(log) = 1
     /\ log[1].level = "error"
     /\ DetailsOfResponse(log[1].details)
     /\ log[1].details.parsed_type = "ChatCompletion"
     /\ log[1].summary.parsed = "ChatCompletion"

C5_Witness ==
  /\ pc = "done"
  /\ HasAttr(completion, "choices")
  /\ completion.f.choices = JArr(<<>>)
  /\ outcome.kind = "raised"
  /\ Len(log) = 1

\* C6 (as stated): every call ends in an output, the original parse
\* exception, the missing-choices AttributeError or
\* OpenAINoChoicesAvailableError, and in an output only when choices is
\* non-empty.  Any AttributeError is counted as the missing-choices failure.
C6_FourOutcomes ==
  pc = "done"
  => \/ /\ outcome.kind = "returned"
        /\ HasAttr(completion, "choices")
        /\ Truthy(completion.f.choices)
     \/ /\ outcome.kind = "raised"
        /\ \/ raw_response.parse.raises /\ outcome.exc = raw_response.parse.exc
           \/ outcome.exc = "AttributeError"
           \/ outcome.exc = "OpenAINoChoicesAvailableError"

\* C7: a stream-looking string in which no payload decodes is not
\* reassembled: the string goes on unchanged, no warning is logged, and the
\* call fails at the choices step with AttributeError.
C7_NothingDecoded ==
  (ParsedStream /\ DecodedPayloads(StreamText) = <<>> /\ pc \in {"choices", "result", "done"})
  => /\ assembled = JNull
     /\ completion = Parsed
     /\ WithLevel("warning") = {}
     /\ pc # "result"
     /\ pc = "done" =>
          /\ outcome = Raised("AttributeError", "choices")
          /\ Len(log) = 1
          /\ Contains(log[1].msg, "missing 'choices'")

C7_Witness ==
  /\ ParsedStream
  /\ pc = "done"
  /\ SplitLines(StreamText) = <<DoneLine>>
  /\ Parsed.s # StreamText
  /\ outcome.kind = "raised"

LastPayload == LET ps == DecodedPayloads(StreamText) IN ps[Len(ps)]

\* v, or the fallback when the key is absent or its value null or empty
OrFallback(d, k, fallback) ==
  IF k \in DOMAIN d.f /\ Truthy(d.f[k]) THEN d.f[k] ELSE fallback

\* C9 (as stated): the synthesized completion takes id, model and created
\* from the last decoded payload, with the fallbacks "streamed-response",
\* "unknown-model" and 0 when the field is absent, null or empty; object is
\* "chat.completion"; there is one choice, index 0, role "assistant",
\* finish_reason "stop"; usage is copied when it is a mapping, else omitted.
C9_Metadata ==
  Reassembled
  => /\ assembled.f.id = OrFallback(LastPayload, "id", Str("streamed-response"))
     /\ assembled.f.model = OrFallback(LastPayload, "model", Str("unknown-model"))
     /\ assembled.f.created = OrFallback(LastPayload, "created", JNum(0))
     /\ assembled.f.object = Str("chat.completion")
     /\ Len(assembled.f.choices.xs) = 1
     /\ assembled.f.choices.xs[1].f.index = JNum(0)
     /\ assembled.f.choices.xs[1].f.message.f.role = Str("assistant")
     /\ assembled.f.choices.xs[1].f.finish_reason = Str("stop")
     /\ IF "usage" \in DOMAIN LastPayload.f /\ LastPayload.f.usage.t = "obj"
        THEN "usage" \in DOMAIN assembled.f /\ assembled.f.usage = LastPayload.f.usage
        ELSE "usage" \notin DOMAIN assembled.f

\* v, or the fallback when the key is absent
OrDefault(d, k, fallback) == IF k \in DOMAIN d.f THEN d.f[k] ELSE fallback

\* C9 (amended): as stated, except that id and model fall back only when
\* the field is absent (a null or empty value is copied as it is), while
\* created falls back when absent, null or zero.
C9_MetadataOfLast ==
  Reassembled
  => /\ assembled.f.id = OrDefault(LastPayload, "id", Str("streamed-response"))
     /\ assembled.f.model = OrDefault(LastPayload, "model", Str("unknown-model"))
     /\ assembled.f.created = OrFallback(LastPayload, "created", JNum(0))
     /\ assembled.f.object = Str("chat.completion")
     /\ Len(assembled.f.choices.xs) = 1
     /\ assembled.f.choices.xs[1].f.index = JNum(0)
     /\ assembled.f.choices.xs[1].f.message.f.role = Str("assistant")
     /\ assembled.f.choices.xs[1].f.finish_reason = Str("stop")
     /\ IF "usage" \in DOMAIN LastPayload.f /\ LastPayload.f.usage.t = "obj"
        THEN "usage" \in DOMAIN assembled.f /\ assembled.f.usage = LastPayload.f.usage
        ELSE "usage" \notin DOMAIN assembled.f

C9_Witness ==
  /\ Reassembled
  /\ Len(DecodedPayloads(StreamText)) = 2
  /\ "id" \notin DOMAIN DecodedPayloads(StreamText)[1].f
  /\ assembled.f.id = Str("chatcmpl-1")
  /\ assembled.f.model = Str("gpt-test")
  /\ assembled.f.created = JNum(7)
  /\ "usage" \in DOMAIN assembled.f

\* C10: when reading the body raises on a failure path, the error record is
\* still logged, its response_body is the placeholder naming the read
\* failure, and the call fails with the same error as with a readable body.
C10_UnreadableBody ==
  (pc = "done" /\ ~BodyText.ok /\ outcome.kind = "raised" /\ outcome.at # "normalize")
  => /\ Cardinality(WithLevel("error")) = 1
     /\ \A i \in WithLevel("error") :
          log[i].details.response_body = FailedBody(BodyText.exc)
     /\ outcome.exc # BodyText.exc
     /\ outcome.exc =
          IF raw_response.parse.raises THEN raw_response.parse.exc
          ELSE IF ~HasAttr(completion, "choices") THEN "AttributeError"
          ELSE "OpenAINoChoicesAvailableError"

C10_Witness ==
  /\ pc = "done"
  /\ ~BodyText.ok
  /\ outcome = Raised("OpenAINoChoicesAvailableError", "choices")
  /\ Len(log) = 1
  /\ log[1].details.response_body = FailedBody("UnicodeDecodeError")


====
